---- MODULE Spec2Model ----
(***************************************************************************)
(* Model of ai_paper_writer.py: the recency filter, the trending scorer,   *)
(* the external validator, the selector and the orchestration in main.     *)
(*                                                                         *)
(* Python values are tagged records, PyVal == [t, n, s]: t is the type     *)
(* ("absent" for a key the mapping does not hold, "none", "int", "str"),   *)
(* n the integer and s the text, a sequence of one-character strings.      *)
(* A call's outcome is [exc, val]: exc names the exception it raised.      *)
(***************************************************************************)
EXTENDS Integers, Sequences, FiniteSets, TLC

VARIABLES
    all_papers,      \* the paper dicts, by identity (position in the source's list)
    arrived,         \* the same dicts as they were handed to the program
    entry,           \* "main", or a direct call of pick_best
    now,             \* datetime.now(), [day, hour]
    pc,              \* position of the run
    recent_papers,   \* fetch_trending's local list (identities)
    warned,          \* fetch_trending printed the fallback warning
    papers,          \* the list main holds / pick_best was given
    sorted_papers,   \* pick_best's sorted copy
    report,          \* the top-3 lines pick_best printed
    report_printed,  \* pick_best printed the report header
    best,            \* identity of the returned paper, 0 for {}
    raised,          \* the exception that ended the run, "none" otherwise
    write_calls,     \* calls of write_article
    chat_calls       \* calls of chat

vars == << all_papers, arrived, entry, now, pc, recent_papers, warned, papers,
           sorted_papers, report, report_printed, best, raised, write_calls,
           chat_calls >>

-----------------------------------------------------------------------------
(* Configuration *)

CURRENT_YEAR == 2025

FALLBACK_LIMIT == 10

TOP_N == 3

\* Bounds of the model.
MaxRanked == 3

MaxFetched == 11

-----------------------------------------------------------------------------
(* Python values *)

Absent == [t |-> "absent", n |-> 0, s |-> << >>]

None == [t |-> "none", n |-> 0, s |-> << >>]

PyInt(k) == [t |-> "int", n |-> k, s |-> << >>]

PyStr(str) == [t |-> "str", n |-> 0, s |-> str]

\* bool(v)
Truthy(v) ==
    CASE v.t = "int" -> v.n # 0
      [] v.t = "str" -> v.s # << >>
      [] OTHER -> FALSE

\* dict.get(key, default)
Get(v, default) == IF v.t = "absent" THEN default ELSE v

\* a or b
Or(a, b) == IF Truthy(a) THEN a ELSE b

-----------------------------------------------------------------------------
(* Text *)

LowerLetters == << "a","b","c","d","e","f","g","h","i","j","k","l","m",
                   "n","o","p","q","r","s","t","u","v","w","x","y","z" >>

UpperLetters == << "A","B","C","D","E","F","G","H","I","J","K","L","M",
                   "N","O","P","Q","R","S","T","U","V","W","X","Y","Z" >>

Whitespace == { " ", "\t", "\n" }

UpperChar(c) ==
    IF \E i \in 1..26 : LowerLetters[i] = c
    THEN UpperLetters[CHOOSE i \in 1..26 : LowerLetters[i] = c]
    ELSE c

\* str.upper()
str_upper(str) == [i \in 1..Len(str) |-> UpperChar(str[i])]

\* needle in hay
Contains(needle, hay) ==
    \E i \in 1..(Len(hay) - Len(needle) + 1) :
        SubSeq(hay, i, i + Len(needle) - 1) = needle

\* str.strip()
str_strip(str) ==
    LET keep == { i \in 1..Len(str) : str[i] \notin Whitespace }
    IN  IF keep = {} THEN << >>
        ELSE SubSeq(str, CHOOSE i \in keep : \A j \in keep : i <= j,
                         CHOOSE i \in keep : \A j \in keep : j <= i)


-----------------------------------------------------------------------------
(* Dates.  A published value is [t, form, tz, day, hour]: t as for PyVal;  *)
(* for a string, form is the shape of its text ("ymd" for YYYY-MM-DD,      *)
(* "ymdThms" for YYYY-MM-DDTHH:MM:SS, "other" and "otherT" for text that is *)
(* no date, without and with a letter T, "empty" for ""), tz the suffix    *)
(* after the time ("", "Z" or "+00:00"), day the calendar day counted from *)
(* 1 January of CURRENT_YEAR and hour the hour of that day.                *)
(***************************************************************************)

Pub(t, form, tz, day, hour) ==
    [t |-> t, form |-> form, tz |-> tz, day |-> day, hour |-> hour]

PubAbsent == Pub("absent", "", "", 0, 0)

PubNone == Pub("none", "", "", 0, 0)

PubInt == Pub("int", "", "", 0, 0)

\* bool(published): a nonzero number or a non-empty string
PubTruthy(p) == p.t = "int" \/ (p.t = "str" /\ p.form # "empty")

\* The calendar year of a day counted from 1 January of CURRENT_YEAR.
YearOf(day) ==
    CASE day >= 365 -> CURRENT_YEAR + 1
      [] day >= 0 /\ day < 365 -> CURRENT_YEAR
      [] day >= -366 /\ day < 0 -> CURRENT_YEAR - 1
      [] OTHER -> CURRENT_YEAR - 2

DateTime(exc, aware, day, hour) ==
    [exc |-> exc, aware |-> aware, day |-> day, hour |-> hour]

\* published.replace('Z', '+00:00')
replace_Z(p) == [p EXCEPT !.tz = IF @ = "Z" THEN "+00:00" ELSE @]

\* datetime.fromisoformat(text): aware exactly when the text carries an offset
fromisoformat(p) ==
    IF p.form = "ymdThms" /\ p.tz \in { "", "+00:00" }
    THEN DateTime("none", p.tz # "", p.day, p.hour)
    ELSE DateTime("ValueError", FALSE, 0, 0)

\* datetime.strptime(text, "%Y-%m-%d"): always naive, midnight
strptime_ymd(p) ==
    IF p.form = "ymd" /\ p.tz = ""
    THEN DateTime("none", FALSE, p.day, 0)
    ELSE DateTime("ValueError", FALSE, 0, 0)

\* The two-format parse both functions share: "T" in text, then one parser.
\* "T" in a number raises TypeError.
parse_published(p) ==
    IF p.t # "str" THEN DateTime("TypeError", FALSE, 0, 0)
    ELSE IF p.form \in { "ymdThms", "otherT" }
         THEN fromisoformat(replace_Z(p))
         ELSE strptime_ymd(p)

\* (datetime.now() - paper_date).days: now is naive, so an aware paper_date
\* raises TypeError; .days is the floor of the difference in days.
days_old(nw, dt) ==
    IF dt.aware THEN [exc |-> "TypeError", val |-> 0]
    ELSE [exc |-> "none",
          val |-> ((nw.day * 24 + nw.hour) - (dt.day * 24 + dt.hour)) \div 24]

is_recent_paper(paper) ==
    LET published_date == Get(paper.published, PubNone)
        paper_date == parse_published(published_date)
    IN  IF ~PubTruthy(published_date) THEN FALSE
        ELSE IF paper_date.exc # "none" THEN FALSE
        ELSE YearOf(paper_date.day) >= CURRENT_YEAR

-----------------------------------------------------------------------------
(* Paper dicts and the derived breakdowns *)

Breakdown(stars, recency, conference, total) ==
    [present |-> TRUE, github_stars |-> stars, recency_bonus |-> recency,
     conference_bonus |-> conference, total_score |-> total]

\* No 'trending_analysis' key.
NoBreakdown ==
    [present |-> FALSE, github_stars |-> 0, recency_bonus |-> 0,
     conference_bonus |-> 0, total_score |-> 0]

Validation(url, code, score) ==
    [present |-> TRUE, arxiv_url |-> url, has_code |-> code, validation_score |-> score]

\* No 'external_validation' key.
NoValidation ==
    [present |-> FALSE, arxiv_url |-> None, has_code |-> FALSE, validation_score |-> 0]

Paper(title, url, published, stars, conference) ==
    [title |-> title, url_abs |-> url, published |-> published,
     github_stars |-> stars, conference |-> conference,
     trending_analysis |-> NoBreakdown, external_validation |-> NoValidation]

Outcome(exc, val) == [exc |-> exc, val |-> val]

-----------------------------------------------------------------------------
(* calculate_trending_score *)

prestigious_conferences ==
    { << "I","C","L","R" >>, << "I","C","M","L" >>,
      << "N","e","u","r","I","P","S" >>, << "A","A","A","I" >>,
      << "I","J","C","A","I" >>, << "A","C","L" >>, << "E","M","N","L","P" >> }

\* github_stars = paper.get("github_stars", 0) or 0
stars_or_zero(paper) == Or(Get(paper.github_stars, PyInt(0)), PyInt(0))

\* github_stars * 10: a number is multiplied, a string repeated
StarsTimesOne(github_stars) == github_stars

StarsComponent(github_stars) ==
    IF github_stars.t = "int" THEN PyInt(github_stars.n * 10)
    ELSE PyStr(github_stars.s \o github_stars.s \o github_stars.s \o github_stars.s
               \o github_stars.s \o github_stars.s \o github_stars.s
               \o github_stars.s \o github_stars.s \o github_stars.s)

\* The sliding scale on days_old.
recency_scale(days) ==
    IF days <= 7 THEN 50
    ELSE IF days <= 30 THEN 25
    ELSE IF days <= 90 THEN 10
    ELSE 0

\* COMPONENT 2: ValueError and TypeError are caught and leave the bonus 0.
recency_component(paper, nw) ==
    LET published == Get(paper.published, PubNone)
        paper_date == parse_published(published)
        age == days_old(nw, paper_date)
    IN  IF ~PubTruthy(published) THEN 0
        ELSE IF paper_date.exc # "none" THEN 0
        ELSE IF age.exc # "none" THEN 0
        ELSE recency_scale(age.val)

\* COMPONENT 3: conference = paper.get("conference") or ""; .upper() of a
\* number raises AttributeError.
conference_component(paper) ==
    LET conference == Or(Get(paper.conference, None), PyStr(<< >>))
    IN  IF ~Truthy(conference) THEN Outcome("none", 0)
        ELSE IF conference.t # "str" THEN Outcome("AttributeError", 0)
        ELSE IF \E conf \in prestigious_conferences :
                    Contains(conf, str_upper(conference.s))
             THEN Outcome("none", 20)
             ELSE Outcome("none", 0)

\* total_score: str + int raises TypeError
calculate_trending_score(paper, nw) ==
    LET stars == StarsComponent(stars_or_zero(paper))
        recency == recency_component(paper, nw)
        conf == conference_component(paper)
    IN  IF conf.exc # "none" THEN Outcome(conf.exc, NoBreakdown)
        ELSE IF stars.t # "int" THEN Outcome("TypeError", NoBreakdown)
        ELSE Outcome("none", Breakdown(stars.n, recency, conf.val,
                                       stars.n + recency + conf.val))

-----------------------------------------------------------------------------
(* validate_external_trending *)

arxiv_marker == << "a","r","x","i","v",".","o","r","g" >>

\* paper.get("url_abs", "")
url_or_empty(paper) == Get(paper.url_abs, PyStr(<< >>))

\* if conference and conference.strip(), without the strip
ConferenceTruthy(conference) ==
    IF ~Truthy(conference) THEN Outcome("none", FALSE)
    ELSE Outcome("none", TRUE)

\* if conference and conference.strip(); .strip() of a number raises
ConferenceNonBlank(conference) ==
    IF ~Truthy(conference) THEN Outcome("none", FALSE)
    ELSE IF conference.t # "str" THEN Outcome("AttributeError", FALSE)
    ELSE Outcome("none", str_strip(conference.s) # << >>)

validate_external_trending(paper) ==
    LET arxiv_url == url_or_empty(paper)
        on_arxiv == Contains(arxiv_marker, arxiv_url.s)
        has_code == Truthy(Get(paper.github_stars, PyInt(0)))
        venue == ConferenceNonBlank(Or(Get(paper.conference, None), PyStr(<< >>)))
    IN  IF venue.exc # "none" THEN Outcome(venue.exc, NoValidation)
        ELSE Outcome("none",
                 Validation(IF on_arxiv THEN arxiv_url ELSE None, has_code,
                            (IF on_arxiv THEN 10 ELSE 0)
                            + (IF has_code THEN 15 ELSE 0)
                            + (IF venue.val THEN 5 ELSE 0)))

-----------------------------------------------------------------------------
(* fetch_trending *)

Min(a, b) == IF a <= b THEN a ELSE b

\* The identities of a list of dicts, in list order.
Identities(lst) == [i \in 1..Len(lst) |-> i]

\* [paper for paper in all_papers if is_recent_paper(paper)]
RecentOnly(lst) == SelectSeq(Identities(lst), LAMBDA i : is_recent_paper(lst[i]))

\* all_papers with no [:10]
FallbackAll(lst) == Identities(lst)

\* all_papers[:10]
FallbackSlice(lst) == SubSeq(Identities(lst), 1, Min(FALLBACK_LIMIT, Len(lst)))

\* A write of the score over a source field.
EnrichTrendingOverStars(paper, breakdown) ==
    [paper EXCEPT !.trending_analysis = breakdown,
                  !.github_stars = PyInt(breakdown.total_score)]

\* paper['trending_analysis'] = ...
EnrichTrending(paper, breakdown) == [paper EXCEPT !.trending_analysis = breakdown]

\* Position in lst of the first dict on which the call raises, Len(lst) + 1 if none.
FirstRaising(lst, exc) ==
    LET bad == { j \in 1..Len(lst) : exc[lst[j]] # "none" }
    IN  IF bad = {} THEN Len(lst) + 1 ELSE CHOOSE j \in bad : \A k \in bad : j <= k

\* The identities a loop over lst reached before position stop.
Reached(lst, stop) == { lst[j] : j \in 1..(stop - 1) }

-----------------------------------------------------------------------------
(* pick_best *)

\* paper.get('trending_analysis', {}).get('total_score', 0)
\*   + paper.get('external_validation', {}).get('validation_score', 0)
combined_score(paper) ==
    (IF paper.trending_analysis.present THEN paper.trending_analysis.total_score ELSE 0)
    + (IF paper.external_validation.present
       THEN paper.external_validation.validation_score ELSE 0)

\* One element placed behind every element of front whose key is not smaller.
InsertDesc(front, x, key) ==
    LET pos == Cardinality({ j \in 1..Len(front) : key[front[j]] >= key[x] })
    IN  SubSeq(front, 1, pos) \o << x >> \o SubSeq(front, pos + 1, Len(front))

RECURSIVE StableSortDesc(_, _)
\* sorted(lst, key=..., reverse=True): the elements placed one by one, in list order.
StableSortDesc(lst, key) ==
    IF lst = << >> THEN << >>
    ELSE InsertDesc(StableSortDesc(SubSeq(lst, 1, Len(lst) - 1), key), lst[Len(lst)], key)

Reverse(lst) == [i \in 1..Len(lst) |-> lst[Len(lst) + 1 - i]]

\* sorted(lst, key=...)[::-1]
SortedAscendingReversed(lst, dicts) ==
    Reverse(StableSortDesc(lst, [i \in 1..Len(dicts) |-> 0 - combined_score(dicts[i])]))

\* sorted(papers, key=combined_score, reverse=True)
SortedPapers(lst, dicts) ==
    StableSortDesc(lst, [i \in 1..Len(dicts) |-> combined_score(dicts[i])])

\* No early return.
NeverReturnsEarly(lst) == FALSE

\* if not papers: return {}
PickBestReturnsEarly(lst) == lst = << >>

\* paper.setdefault('external_validation', ...)
AttachValidationIfAbsent(paper, validation) ==
    IF paper.external_validation.present THEN paper
    ELSE [paper EXCEPT !.external_validation = validation]

\* paper['external_validation'] = validate_external_trending(paper)
AttachValidation(paper, validation) == [paper EXCEPT !.external_validation = validation]

\* One line of the top-3 report.
ReportLine(paper) ==
    [title |-> paper.title,
     trending |-> IF paper.trending_analysis.present
                  THEN paper.trending_analysis.total_score ELSE 0,
     validation |-> paper.external_validation.validation_score,
     total |-> combined_score(paper)]

-----------------------------------------------------------------------------
(* Inputs *)

Text_neurips_2025 == << "n","e","u","r","i","p","s"," ","2","0","2","5" >>

Text_NeurIPS == << "N","e","u","r","I","P","S" >>

Text_icml == << "i","c","m","l" >>

Text_ACL_2025 == << "A","C","L"," ","2","0","2","5" >>

Text_Workshop_on_Foo ==
    << "W","o","r","k","s","h","o","p"," ","o","n"," ","F","o","o" >>

Text_Oracle == << "O","r","a","c","l","e" >>

Text_blank == << " "," " >>

Text_arxiv_url == << "/","/","a","r","x","i","v",".","o","r","g","/","1" >>

Text_other_url == << "/","/","a","c","m",".","o","r","g","/","1" >>

Text_12 == << "1","2" >>

Clock == { [day |-> 40, hour |-> 12] }

Ages == { -1, 7, 8, 30, 31, 40, 41, 90, 91 }

\* A date text for a paper that many days old at the clock's day.
Dated(form, tz, age, hour) == Pub("str", form, tz, 40 - age, hour)

Urls == { Absent, PyStr(Text_arxiv_url), PyStr(Text_other_url) }

Stars == { Absent, None, PyInt(0), PyInt(37), PyInt(-3), PyStr(Text_12) }

Conferences ==
    { Absent, None, PyStr(<< >>), PyStr(Text_blank), PyStr(Text_neurips_2025),
      PyStr(Text_NeurIPS), PyStr(Text_icml), PyStr(Text_ACL_2025),
      PyStr(Text_Workshop_on_Foo), PyStr(Text_Oracle), PyInt(123) }

PublishedValues ==
    { PubAbsent, PubNone, PubInt, Pub("str", "empty", "", 0, 0),
      Pub("str", "other", "", 0, 0), Pub("str", "otherT", "", 0, 0) }
    \cup { Dated("ymd", "", a, 0) : a \in Ages }
    \cup { Dated("ymdThms", tz, a, 12) : tz \in { "", "Z", "+00:00" }, a \in Ages }
    \cup { Dated("ymdThms", "", a, 18) : a \in Ages }

\* Every dict the field values make; the title is set from the list position.
PaperRecords ==
    { Paper(0, u, p, g, c) :
        u \in Urls, p \in PublishedValues, g \in Stars, c \in Conferences }

\* Dicts that rank: ties, a negative total, an old paper, a wrong-typed field.
RankPool ==
    { Paper(0, PyStr(Text_arxiv_url), Dated("ymd", "", 7, 0), PyInt(37), PyStr(Text_icml)),
      Paper(0, PyStr(Text_other_url), Dated("ymd", "", 8, 0), Absent, Absent),
      Paper(0, Absent, Dated("ymdThms", "", 30, 12), PyInt(0), None),
      Paper(0, Absent, Pub("str", "other", "", 0, 0), PyInt(-3), PyStr(Text_Workshop_on_Foo)),
      Paper(0, Absent, Dated("ymd", "", 90, 0), PyInt(37), Absent),
      Paper(0, Absent, Dated("ymd", "", 31, 0), PyStr(Text_12), Absent) }

\* Dicts that differ in recency alone.
DatePool ==
    { Paper(0, Absent, Dated("ymd", "", 7, 0), Absent, Absent),
      Paper(0, Absent, Dated("ymd", "", 90, 0), Absent, Absent) }

ListsOf(pool, maxlen) == UNION { [1..n -> pool] : n \in 0..maxlen }

InputLists ==
    { << r >> : r \in PaperRecords }
    \cup ListsOf(RankPool, MaxRanked)
    \cup ListsOf(DatePool, MaxFetched)

Entries == { "main", "pick_best", "pick_best_enriched" }

\* Enrichments a dict handed to pick_best may already carry.
CarriedBreakdown == Breakdown(370, 25, 20, 415)

CarriedValidation == Validation(None, FALSE, 0)

Arrive(shape, i, e) ==
    IF e = "pick_best_enriched"
    THEN [shape EXCEPT !.title = i, !.trending_analysis = CarriedBreakdown,
                       !.external_validation = CarriedValidation]
    ELSE [shape EXCEPT !.title = i]

-----------------------------------------------------------------------------
(* The run *)

Init ==
    /\ entry \in Entries
    /\ \E shapes \in InputLists :
         all_papers = [i \in 1..Len(shapes) |-> Arrive(shapes[i], i, entry)]
    /\ arrived = all_papers
    /\ now \in Clock
    /\ pc = "start"
    /\ recent_papers = << >>
    /\ warned = FALSE
    /\ papers = IF entry = "main" THEN << >> ELSE Identities(all_papers)
    /\ sorted_papers = << >>
    /\ report = << >>
    /\ report_printed = FALSE
    /\ best = 0
    /\ raised = "none"
    /\ write_calls = 0
    /\ chat_calls = 0

\* main up to the call of fetch_trending: _require_env exits without the key.
MainStart ==
    /\ pc = "start"
    /\ entry = "main"
    /\ \E has_key \in BOOLEAN : pc' = IF has_key THEN "fetch" ELSE "exit"
    /\ UNCHANGED << all_papers, arrived, entry, now, recent_papers, warned, papers,
                    sorted_papers, report, report_printed, best, raised,
                    write_calls, chat_calls >>

\* papers = fetch_trending()
FetchTrending ==
    /\ pc = "fetch"
    /\ \E responded \in BOOLEAN :
         IF ~responded
         THEN /\ raised' = "HTTPError"
              /\ pc' = "raised"
              /\ UNCHANGED << all_papers, recent_papers, warned, papers >>
         ELSE \E recent \in { RecentOnly(all_papers) } :
              \E chosen \in { IF recent = << >> THEN FallbackSlice(all_papers) ELSE recent } :
              \E score \in { [i \in 1..Len(all_papers) |->
                                calculate_trending_score(all_papers[i], now)] } :
              \E stop \in { FirstRaising(chosen, [i \in 1..Len(all_papers) |-> score[i].exc]) } :
                  /\ warned' = (recent = << >>)
                  /\ recent_papers' = chosen
                  /\ all_papers' =
                        [i \in 1..Len(all_papers) |->
                            IF i \in Reached(chosen, stop)
                            THEN EnrichTrending(all_papers[i], score[i].val)
                            ELSE all_papers[i]]
                  /\ IF stop <= Len(chosen)
                     THEN /\ raised' = score[chosen[stop]].exc
                          /\ pc' = "raised"
                          /\ UNCHANGED papers
                     ELSE /\ papers' = chosen
                          /\ pc' = "fetched"
                          /\ UNCHANGED raised
    /\ UNCHANGED << arrived, entry, now, sorted_papers, report, report_printed, best,
                    write_calls, chat_calls >>

\* if not papers: return
MainCheckPapers ==
    /\ pc = "fetched"
    /\ pc' = IF papers = << >> THEN "done" ELSE "pick"
    /\ UNCHANGED << all_papers, arrived, entry, now, recent_papers, warned, papers,
                    sorted_papers, report, report_printed, best, raised,
                    write_calls, chat_calls >>

\* pick_best(papers), returning to return_pc
PickBestCall(return_pc) ==
    IF PickBestReturnsEarly(papers)
    THEN /\ best' = 0
         /\ pc' = return_pc
         /\ UNCHANGED << all_papers, sorted_papers, report, report_printed, raised >>
    ELSE \E checked \in { [i \in 1..Len(all_papers) |->
                              validate_external_trending(all_papers[i])] } :
         \E stop \in { FirstRaising(papers, [i \in 1..Len(all_papers) |-> checked[i].exc]) } :
         \E validated \in { [i \in 1..Len(all_papers) |->
                               IF i \in Reached(papers, stop)
                               THEN AttachValidation(all_papers[i], checked[i].val)
                               ELSE all_papers[i]] } :
         \E ranked \in { SortedPapers(papers, validated) } :
             /\ all_papers' = validated
             /\ IF stop <= Len(papers)
                THEN /\ raised' = checked[papers[stop]].exc
                     /\ pc' = "raised"
                     /\ UNCHANGED << sorted_papers, report, report_printed, best >>
                ELSE /\ sorted_papers' = ranked
                     /\ report_printed' = TRUE
                     /\ report' = [k \in 1..Min(TOP_N, Len(ranked)) |->
                                      ReportLine(validated[ranked[k]])]
                     /\ IF ranked = << >>
                        THEN /\ raised' = "IndexError"
                             /\ pc' = "raised"
                             /\ UNCHANGED best
                        ELSE /\ best' = ranked[1]
                             /\ pc' = return_pc
                             /\ UNCHANGED raised

\* best = pick_best(papers), in main
MainPickBest ==
    /\ pc = "pick"
    /\ PickBestCall("picked")
    /\ UNCHANGED << arrived, entry, now, recent_papers, warned, papers,
                    write_calls, chat_calls >>

\* pick_best(papers), called on its own
DirectPickBest ==
    /\ pc = "start"
    /\ entry # "main"
    /\ PickBestCall("done")
    /\ UNCHANGED << arrived, entry, now, recent_papers, warned, papers,
                    write_calls, chat_calls >>

\* if not best: return
MainCheckBest ==
    /\ pc = "picked"
    /\ pc' = IF best = 0 THEN "done" ELSE "write"
    /\ UNCHANGED << all_papers, arrived, entry, now, recent_papers, warned, papers,
                    sorted_papers, report, report_printed, best, raised,
                    write_calls, chat_calls >>

\* article = write_article(best): two calls of chat, either of which may fail
WriteArticle ==
    /\ pc = "write"
    /\ write_calls' = write_calls + 1
    /\ \E answered \in 0..2 :
         /\ chat_calls' = chat_calls + Min(answered + 1, 2)
         /\ IF answered = 2
            THEN pc' = "done" /\ UNCHANGED raised
            ELSE pc' = "raised" /\ raised' = "APIError"
    /\ UNCHANGED << all_papers, arrived, entry, now, recent_papers, warned, papers,
                    sorted_papers, report, report_printed, best >>

Next ==
    \/ MainStart
    \/ FetchTrending
    \/ MainCheckPapers
    \/ MainPickBest
    \/ DirectPickBest
    \/ MainCheckBest
    \/ WriteArticle

Spec == Init /\ [][Next]_vars

-----------------------------------------------------------------------------
(* Properties *)

Papers == 1..Len(all_papers)

\* The dict was scored by calculate_trending_score in this run.
Scored(i) == entry = "main" /\ all_papers[i].trending_analysis.present

\* pick_best returned a paper.
Selected == best # 0

\* Position of a dict in a list of distinct identities.
PositionIn(lst, i) == CHOOSE k \in 1..Len(lst) : lst[k] = i

\* trending_analysis.total_score + external_validation.validation_score
CombinedTotal(i) ==
    all_papers[i].trending_analysis.total_score
    + all_papers[i].external_validation.validation_score

\* C1: whenever pick_best returns a paper, its sorted list is the given list
\* ordered descending by combined score, dicts of equal combined score keep
\* their input order, and the returned dict is the first of that order: it has
\* the maximum combined score and, among those with the maximum, the earliest
\* input position.
C1_ReturnsFirstOfStableDescendingOrder ==
    Selected =>
        /\ Len(sorted_papers) = Len(papers)
        /\ { sorted_papers[k] : k \in 1..Len(sorted_papers) }
              = { papers[k] : k \in 1..Len(papers) }
        /\ \A j, k \in 1..Len(sorted_papers) :
              j < k =>
                 /\ CombinedTotal(sorted_papers[j]) >= CombinedTotal(sorted_papers[k])
                 /\ CombinedTotal(sorted_papers[j]) = CombinedTotal(sorted_papers[k])
                       => PositionIn(papers, sorted_papers[j])
                             < PositionIn(papers, sorted_papers[k])
        /\ best = sorted_papers[1]
        /\ \A k \in 1..Len(papers) :
              /\ CombinedTotal(papers[k]) <= CombinedTotal(best)
              /\ CombinedTotal(papers[k]) = CombinedTotal(best)
                    => PositionIn(papers, best) <= k

\* C1 witness: a paper was returned that ties for the top score with a later
\* dict and that a dict of lower score precedes in the input.
C1_Witness ==
    /\ Selected
    /\ \E k \in 1..Len(papers) :
          /\ k > PositionIn(papers, best)
          /\ CombinedTotal(papers[k]) = CombinedTotal(best)
    /\ \E k \in 1..Len(papers) :
          /\ k < PositionIn(papers, best)
          /\ CombinedTotal(papers[k]) < CombinedTotal(best)

\* fetch_trending got the source's answer and reduced it.
Reduced == entry = "main" /\ pc \notin { "start", "fetch", "exit" } /\ raised # "HTTPError"

RecentIdentities == { i \in 1..Len(arrived) : is_recent_paper(arrived[i]) }

\* C2: the reduced set is the sublist, in original order, of the dicts for which
\* is_recent_paper holds when there is one; otherwise it is the first 10 dicts of
\* the unfiltered list in original order (all of them if fewer), and the
\* fallback warning is printed in that case and only then.
C2_ReductionWithFallback ==
    Reduced =>
        /\ \A j, k \in 1..Len(recent_papers) : j < k => recent_papers[j] < recent_papers[k]
        /\ IF RecentIdentities # {}
           THEN /\ { recent_papers[k] : k \in 1..Len(recent_papers) } = RecentIdentities
                /\ ~warned
           ELSE /\ recent_papers = [k \in 1..Min(10, Len(arrived)) |-> k]
                /\ warned

\* C2 witness: more than 10 dicts, none recent, reduced to the first 10 with the
\* warning printed.
C2_Witness ==
    /\ Reduced
    /\ Len(arrived) > 10
    /\ RecentIdentities = {}
    /\ Len(recent_papers) = 10
    /\ warned

\* The reduction in fetch_trending yielded no dict.
EmptyAfterFetch == Reduced /\ recent_papers = << >>

\* pick_best was called with an empty list.
EmptyAtPickBest == entry # "main" /\ pc # "start" /\ papers = << >>

\* C3: when the candidate set is empty at a stage, that stage yields the empty
\* result without raising, pick_best prints no top-3 report, and the run goes on
\* to its end without a call of write_article or chat.
C3_EmptySetStopsTheRun ==
    (EmptyAfterFetch \/ EmptyAtPickBest) =>
        /\ raised = "none"
        /\ papers = << >>
        /\ best = 0
        /\ ~report_printed
        /\ report = << >>
        /\ write_calls = 0
        /\ chat_calls = 0
        /\ pc \in { "fetched", "done" }
        /\ pc = "done" \/ ENABLED Next

\* C3 witness: main ended after the source returned no dict.
C3_Witness == EmptyAfterFetch /\ arrived = << >> /\ pc = "done" /\ warned

\* The conference text names a venue of the allow-list, letter case apart.
NamesPrestigiousVenue(conference) ==
    /\ conference.t = "str"
    /\ \E venue \in prestigious_conferences :
          Contains(str_upper(venue), str_upper(conference.s))

\* C4: conference_bonus is 20 when the conference text contains a venue of the
\* allow-list compared without regard to case, and 0 otherwise, absent and
\* empty conference included; "neurips 2025" gives 20.
C4_ConferenceBonusIgnoresCase ==
    \A i \in Papers :
        Scored(i) =>
            all_papers[i].trending_analysis.conference_bonus
               = IF NamesPrestigiousVenue(arrived[i].conference) THEN 20 ELSE 0

\* Age in whole days of a parsed date, whatever its timezone.
AgeInDays(dt) == ((now.day * 24 + now.hour) - (dt.day * 24 + dt.hour)) \div 24

\* C5: for a published value the two-format parse accepts, recency_bonus follows
\* the age in whole days: 50 up to 7 (negative ages too), 25 up to 30, 10 up to
\* 90, 0 beyond; otherwise it is 0.
C5_RecencyBonusFollowsAge ==
    \A i \in Papers :
        Scored(i) =>
            LET published == arrived[i].published
                parsed == parse_published(published)
                age == AgeInDays(parsed)
            IN  all_papers[i].trending_analysis.recency_bonus
                   = IF PubTruthy(published) /\ parsed.exc = "none"
                     THEN CASE age <= 7 -> 50
                            [] age > 7 /\ age <= 30 -> 25
                            [] age > 30 /\ age <= 90 -> 10
                            [] OTHER -> 0
                     ELSE 0

\* C6: no malformed or missing field (published, github_stars, conference, of
\* the wrong type or null) makes is_recent_paper, calculate_trending_score or
\* validate_external_trending raise; the run ends by an exception only when a
\* collaborator fails.
C6_MalformedFieldsNeverRaise == raised \in { "none", "HTTPError", "APIError" }

\* The star count of a dict, 0 when missing or null.
StarCount(paper) == IF paper.github_stars.t = "int" THEN paper.github_stars.n ELSE 0

\* C7 as stated: the four values are non-negative, total_score is the sum of the
\* three components, and the popularity component is max(github_stars, 0) * 10.
C7_PopularityClampedAtZero ==
    \A i \in Papers :
        Scored(i) =>
            LET breakdown == all_papers[i].trending_analysis
                stars == StarCount(arrived[i])
            IN  /\ breakdown.github_stars = (IF stars > 0 THEN stars ELSE 0) * 10
                /\ breakdown.total_score = breakdown.github_stars
                      + breakdown.recency_bonus + breakdown.conference_bonus
                /\ breakdown.github_stars >= 0
                /\ breakdown.recency_bonus >= 0
                /\ breakdown.conference_bonus >= 0
                /\ breakdown.total_score >= 0

\* C7 amended: total_score is the sum of the three components, the popularity
\* component is github_stars * 10 (0 when missing or null, negative for a
\* negative count), the two bonuses are non-negative, and all four values are
\* non-negative when github_stars is.
C7_PopularityIsStarsTimesTen ==
    \A i \in Papers :
        Scored(i) =>
            LET breakdown == all_papers[i].trending_analysis
                stars == StarCount(arrived[i])
            IN  /\ breakdown.github_stars = stars * 10
                /\ breakdown.total_score = breakdown.github_stars
                      + breakdown.recency_bonus + breakdown.conference_bonus
                /\ breakdown.recency_bonus \in { 0, 10, 25, 50 }
                /\ breakdown.conference_bonus \in { 0, 20 }
                /\ stars >= 0 => breakdown.github_stars >= 0 /\ breakdown.total_score >= 0

\* C7 witness: a dict with a negative star count was scored, and one with 37.
C7_Witness ==
    /\ \E i \in Papers :
          /\ Scored(i)
          /\ arrived[i].github_stars = PyInt(-3)
          /\ all_papers[i].trending_analysis.github_stars = -30
    /\ \E i \in Papers :
          /\ Scored(i)
          /\ arrived[i].github_stars = PyInt(37)
          /\ all_papers[i].trending_analysis.github_stars = 370

\* The dict was validated by a call of pick_best that returned a paper.
Validated(i) == Selected /\ \E k \in 1..Len(papers) : papers[k] = i

\* C8: validation_score is the sum of three bonuses: 10 iff the URL contains the
\* preprint-server marker (arxiv_url is then that URL, None otherwise), 15 iff
\* github_stars is a nonzero truthy value (has_code says which), 5 iff the
\* conference is present and not blank after trimming; so it is a sum of a
\* subset of {10, 15, 5}.
C8_ValidationIsSumOfThreeBonuses ==
    \A i \in Papers :
        Validated(i) =>
            LET given == arrived[i]
                validation == all_papers[i].external_validation
                preprint == given.url_abs.t = "str" /\ Contains(arxiv_marker, given.url_abs.s)
                code == \/ given.github_stars.t = "int" /\ given.github_stars.n # 0
                        \/ given.github_stars.t = "str" /\ given.github_stars.s # << >>
                venue == /\ given.conference.t = "str"
                         /\ \E k \in 1..Len(given.conference.s) :
                               given.conference.s[k] \notin Whitespace
            IN  /\ validation.present
                /\ validation.arxiv_url = (IF preprint THEN given.url_abs ELSE None)
                /\ validation.has_code = code
                /\ validation.validation_score
                      = (IF preprint THEN 10 ELSE 0) + (IF code THEN 15 ELSE 0)
                        + (IF venue THEN 5 ELSE 0)
                /\ validation.validation_score \in { 0, 5, 10, 15, 20, 25, 30 }

\* C8 witness: a dict with a preprint URL, a star count of 0 and a venue off the
\* allow-list was validated with 10 + 5 and no code.
C8_Witness ==
    \E i \in Papers :
        /\ Validated(i)
        /\ arrived[i].conference = PyStr(Text_Workshop_on_Foo)
        /\ arrived[i].github_stars = PyInt(0)
        /\ all_papers[i].external_validation.arxiv_url = PyStr(Text_arxiv_url)
        /\ ~all_papers[i].external_validation.has_code
        /\ all_papers[i].external_validation.validation_score = 15

SourceFields(paper) ==
    << paper.title, paper.url_abs, paper.published, paper.github_stars, paper.conference >>

\* C9: whatever the pipeline did, every source field of every dict has the value
\* it had on input, no dict was added or dropped, and the list pick_best was
\* given is as it was given.
C9_SourceFieldsKept ==
    /\ Len(all_papers) = Len(arrived)
    /\ \A i \in Papers : SourceFields(all_papers[i]) = SourceFields(arrived[i])
    /\ entry = "main" /\ pc \in { "fetched", "pick", "picked", "write", "done" }
          => papers = recent_papers
    /\ entry # "main" => papers = Identities(arrived)

\* C9 witness: main selected a paper after both enrichments were written and the
\* sorted copy differs from the given list.
C9_Witness ==
    /\ entry = "main"
    /\ Selected
    /\ sorted_papers # papers
    /\ \A k \in 1..Len(papers) :
          /\ all_papers[papers[k]].trending_analysis.present
          /\ all_papers[papers[k]].external_validation.present

\* C10 as stated: after pick_best returns a paper, every dict of its list carries
\* both enrichments, a dict that arrived without trending_analysis has been
\* scored by calculate_trending_score, and an enrichment a dict arrived with is
\* unchanged.
C10_EnrichedOnceIfAbsent ==
    Selected =>
        \A k \in 1..Len(papers) :
            LET given == arrived[papers[k]]
                paper == all_papers[papers[k]]
            IN  /\ paper.trending_analysis.present
                /\ paper.external_validation.present
                /\ ~given.trending_analysis.present
                      => paper.trending_analysis
                            = calculate_trending_score(given, now).val
                /\ given.trending_analysis.present
                      => paper.trending_analysis = given.trending_analysis
                /\ given.external_validation.present
                      => paper.external_validation = given.external_validation

\* A step that is a call of pick_best.
PickBestStep == pc = "pick" \/ (pc = "start" /\ entry # "main")

\* C10 amended: a call of pick_best leaves trending_analysis of every dict as it
\* arrived (absent stays absent and ranks as a total of 0), and when it returns
\* a paper every dict of its list carries a validation freshly computed by
\* validate_external_trending, replacing any it arrived with.
C10_ValidatesAfreshKeepsTrending ==
    [][ PickBestStep =>
          /\ \A i \in Papers :
                all_papers'[i].trending_analysis = all_papers[i].trending_analysis
          /\ best' # 0 =>
                \A k \in 1..Len(papers) :
                    /\ all_papers'[papers[k]].external_validation
                          = validate_external_trending(all_papers[papers[k]]).val
                    /\ all_papers'[papers[k]].external_validation.present
                    /\ combined_score(all_papers'[best'])
                          >= combined_score(all_papers'[papers[k]]) ]_vars

\* C10 witness: pick_best returned a paper from dicts that arrived without
\* trending_analysis and still lack it.
C10_Witness ==
    /\ entry = "pick_best"
    /\ Selected
    /\ Len(papers) >= 2
    /\ \A k \in 1..Len(papers) :
          /\ ~all_papers[papers[k]].trending_analysis.present
          /\ all_papers[papers[k]].external_validation.present

====
